---------------------------- MODULE Spec2Model ----------------------------
(***************************************************************************)
(* Outlook-Telegram-Notifier: the polling / recovery / dedup / delivery    *)
(* pipeline of src/main.go (mainLogic and the functions it calls).         *)
(*                                                                         *)
(* The scheduler loop of mainLogic, the cycle goroutines it starts through *)
(* safeGoNoLog, the capacity-1 channel `semaphore`, the mutex `mutexMsg`   *)
(* and the map `processedEmails` are the state.  Every provider (COM) or   *)
(* network call is one step whose outcome (value, error, panic) is chosen  *)
(* nondeterministically.                                                   *)
(*                                                                         *)
(* The pure functions formatMessage, findFolderRecursive and postJSON are  *)
(* operators; PureSpec applies them to every call of a bounded set.        *)
(***************************************************************************)
EXTENDS Integers, Sequences, FiniteSets, TLC

(***************************************************************************)
(* Bounds                                                                  *)
(***************************************************************************)
\* number of goroutine slots the model keeps for cycle tasks
MaxTasks == 2

Tasks == 1..MaxTasks

(***************************************************************************)
(* The mailbox the provider exposes (input of the model).                  *)
(* Node 0 is the MAPI namespace, the other nodes are folders.              *)
(*    0 -- 1 Mailbox -- 2 Inbox                                            *)
(*                   |- 3 Projects -- 4 Invoices                           *)
(*                   `- 5 Invoices                                         *)
(***************************************************************************)
Nodes == 0..5

NoFolder == -1

\* oleutil.MustGetProperty(parent, "Folders"): children in provider order
Folders(n) ==
    CASE n = 0 -> <<1>>
      [] n = 1 -> <<2, 3, 5>>
      [] n = 3 -> <<4>>
      [] OTHER -> << >>

\* oleutil.MustGetProperty(folder, "Name")
Name(n) ==
    CASE n = 1 -> "Mailbox"
      [] n = 2 -> "Inbox"
      [] n = 3 -> "Projects"
      [] n = 4 -> "Invoices"
      [] n = 5 -> "Invoices"
      [] OTHER -> "MAPI"

\* the name getFolder special-cases (the literal "Входящие" of the source)
DefaultInboxName == "Vkhodyashchie"

\* ns.GetDefaultFolder(6): the provider's primary inbox
GetDefaultFolder == 2

\* message identities (EntryID) of the items each folder holds, in provider order
Items(n) ==
    CASE n = 2 -> <<"e1", "e2">>
      [] n = 4 -> <<"e3">>
      [] OTHER -> << >>

EntryIDs == {"e1", "e2", "e3"}

(***************************************************************************)
(* Configuration (immutable per run): config.Folders, an ordered list of   *)
(* folder rules.                                                           *)
(***************************************************************************)
Rule(n, c, l) == [Name |-> n, ChatID |-> c, MessageLength |-> l]

Configs ==
    { <<Rule(DefaultInboxName, "", 50), Rule("Missing", "", 50), Rule("Invoices", "chatB", 0)>>,
      <<Rule("Missing", "", 50)>>,
      <<Rule("Inbox", "", 4000), Rule(DefaultInboxName, "chatA", 50),
        Rule("Inbox", "chatC", 0)>> }

(***************************************************************************)
(* Pure helpers                                                            *)
(***************************************************************************)
RECURSIVE findFolderRecursive(_, _)
RECURSIVE findInChildren(_, _, _)

\* a loop that compares all children before it searches below any
FaultyFindInChildren(children, i, target) ==
    LET direct == {k \in i..Len(children) : Name(children[k]) = target}
        below == {k \in i..Len(children) :
                    findFolderRecursive(children[k], target) # NoFolder}
    IN  IF direct # {} THEN children[CHOOSE k \in direct : \A j \in direct : k <= j]
        ELSE IF below # {}
             THEN findFolderRecursive(children[CHOOSE k \in below : \A j \in below : k <= j],
                                      target)
             ELSE NoFolder

\* the loop of findFolderRecursive over folders.Item(i), i = 1..count:
\* child i is compared first, then searched, before child i+1 is looked at
findInChildren(children, i, target) ==
    IF i > Len(children) THEN NoFolder
    ELSE IF Name(children[i]) = target THEN children[i]
    ELSE LET subFolder == findFolderRecursive(children[i], target)
         IN  IF subFolder # NoFolder THEN subFolder
             ELSE findInChildren(children, i + 1, target)

findFolderRecursive(parent, target) == findInChildren(Folders(parent), 1, target)

\* getFolder(ns, name): NoFolder stands for the "not found" error
getFolder(name) ==
    IF name = DefaultInboxName THEN GetDefaultFolder
    ELSE findFolderRecursive(0, name)

\* processedEmails[entryID] of a Go map[string]bool: a missing key reads false
Lookup(m, id) == IF id \in DOMAIN m THEN m[id] ELSE FALSE

\* processedEmails[entryID] = v
Store(m, id, v) == [k \in DOMAIN m \cup {id} |-> IF k = id THEN v ELSE m[k]]

\* a rollback that deletes the key
FaultyRollback(m, id) == [k \in DOMAIN m \ {id} |-> m[k]]

\* processedEmails[entryID] = false
Rollback(m, id) == Store(m, id, FALSE)

\* the subsequence of s whose elements are in set u, order kept
Restrict(s, u) == SelectSeq(s, LAMBDA x : x \in u)


(***************************************************************************)
(* Pieces of the code the actions below are built from.  Each faulty       *)
(* variant (Faulty...) is the piece after it with a plausible slip; the    *)
(* properties of the last section are required to tell the two apart.      *)
(***************************************************************************)
\* a guard that admits two cycles
FaultySemaphoreCap == 1 + 1

\* var semaphore = make(chan struct{}, 1): the capacity of the guard
semaphoreCap == 1

\* the slot given back by a plain statement at the end of the task instead of
\* a defer: a panic skips it
FaultyReleaseSlot(sem, exit) == IF exit = "panic" THEN sem ELSE sem - 1

\* defer func() { <-semaphore }(): runs on every way out of the cycle task,
\* exit being the way out taken
ReleaseSlot(sem, exit) == sem - 1

\* the dedup check left out
FaultyAlreadySent(m, id) == FALSE

\* if processedEmails[entryID] { return }
AlreadySent(m, id) == Lookup(m, id)

\* the rollback left out
FaultyAfterSend(m, id, ok) == m

\* if err := sendTelegramMessage(...); err != nil { processedEmails[entryID] = false }
AfterSend(m, id, ok) == IF ok THEN m ELSE Rollback(m, id)

\* postJSON: the outcomes of the single network call of a delivery attempt
SendResults == {"200", "429", "transport"}

\* postJSON returns a nil error only for resp.StatusCode == http.StatusOK
SendOk(res) == res = "200"

\* a failed delivery ends processFolders
FaultyContinueAfterEmail(sendOk) == sendOk

\* processFolders: the item loop goes on after processEmail returns, whatever
\* the delivery did (processEmail returns nothing)
ContinueAfterEmail(sendOk) == TRUE

\* `break` instead of `continue`
FaultyNextRuleAfterError(idx, n) == n + 1

\* getTargetFolders: `continue` after a getFolder error; the index of the next
\* rule looked at (n rules in all)
NextRuleAfterError(idx, n) == idx + 1

\* initialization tried again in the same cycle
FaultyAfterKill == "init"

\* mainLogic: the `return` after killOutlookProcess; the place the task goes on at
AfterKill == "ret"

(***************************************************************************)
(* formatMessage.  A text is a sequence of runes, a rune being a string of *)
(* the model; the Cyrillic labels of the source are written letter for     *)
(* letter in Latin and an emoji is one rune.                               *)
(***************************************************************************)
\* number of pieces the enumerated bodies are made of
MaxBody == 3

\* the pieces of the enumerated bodies: a letter, a rune html.EscapeString
\* rewrites, and the cut markers as such and in another case
BodyPieces ==
    { <<"a">>, <<"<">>, <<"-", "e", "n", "d">>, <<"-", "E", "n", "d">>,
      <<"<", "e", "n", "d">> }

RECURSIVE Flatten(_)
\* the pieces of ps one after the other
Flatten(ps) == IF Len(ps) = 0 THEN << >> ELSE ps[1] \o Flatten(Tail(ps))

\* the sequences over set S of length at most n
SeqsUpTo(S, n) == UNION {[1..k -> S] : k \in 0..n}

\* a text of n runes c
Rep(c, n) == [i \in 1..n |-> c]

\* html.EscapeString: what one rune becomes
EscapeRune(c) ==
    CASE c = "<"  -> <<"&", "l", "t", ";">>
      [] c = ">"  -> <<"&", "g", "t", ";">>
      [] c = "&"  -> <<"&", "a", "m", "p", ";">>
      [] c = "'"  -> <<"&", "#", "3", "9", ";">>
      [] c = "\"" -> <<"&", "#", "3", "4", ";">>
      [] OTHER    -> <<c>>

RECURSIVE EscapeString(_)
\* html.EscapeString(s), halving s to keep the recursion shallow
EscapeString(s) ==
    IF Len(s) = 0 THEN << >>
    ELSE IF Len(s) = 1 THEN EscapeRune(s[1])
    ELSE LET h == Len(s) \div 2
         IN  EscapeString(SubSeq(s, 1, h)) \o EscapeString(SubSeq(s, h + 1, Len(s)))

Ellipsis == <<".", ".", ".">>

\* truncateByRunes(text, maxRunes)
truncateByRunes(text, maxRunes) ==
    IF Len(text) <= maxRunes THEN text
    ELSE SubSeq(text, 1, maxRunes) \o Ellipsis

\* the case folding of the flag (?i) on the runes of the model
Fold(c) ==
    CASE c = "A" -> "a" [] c = "B" -> "b" [] c = "E" -> "e" [] c = "I" -> "i"
      [] c = "O" -> "o" [] c = "P" -> "p" [] c = "S" -> "s" [] c = "T" -> "t"
      [] OTHER -> c

\* cutString matches text at position i, the case of both folded
FaultyMatchesAt(text, cutString, i) ==
    \A k \in 1..Len(cutString) : text[i + k - 1] = cutString[k]
MatchesAt(text, cutString, i) ==
    \A k \in 1..Len(cutString) : Fold(text[i + k - 1]) = Fold(cutString[k])

\* regexp.MustCompile("(?i)" + regexp.QuoteMeta(cutString)).FindStringIndex(text):
\* the position of the first match, 0 for nil
FindStringIndex(text, cutString) ==
    LET hits == {i \in 1..(Len(text) - Len(cutString) + 1) : MatchesAt(text, cutString, i)}
    IN  IF hits = {} THEN 0
        ELSE CHOOSE i \in hits : \A j \in hits : i <= j

\* "<b>Папка:</b> ", "<b>Отправитель:</b> ", "<b>Тема:</b> ", "<i>Сообщение:</i>\n"
FolderLabel  == <<"<", "b", ">", "P", "a", "p", "k", "a", ":", "<", "/", "b", ">", " ">>
SenderLabel  == <<"<", "b", ">", "O", "t", "p", "r", "a", "v", "i", "t", "e", "l", "j", ":",
                  "<", "/", "b", ">", " ">>
SubjectLabel == <<"<", "b", ">", "T", "e", "m", "a", ":", "<", "/", "b", ">", " ">>
BodyLabel    == <<"<", "i", ">", "S", "o", "o", "b", "w", "e", "n", "i", "e", ":",
                  "<", "/", "i", ">", "\n">>

\* the emoji and the blank written before a label when UseEmojis is set
Emoji(useEmojis, e) == IF useEmojis THEN <<e, " ">> ELSE << >>

\* the three header lines
Header(useEmojis, folder, sender, subject) ==
    Emoji(useEmojis, "inbox-tray") \o FolderLabel \o EscapeString(folder) \o <<"\n">>
    \o Emoji(useEmojis, "bust") \o SenderLabel \o EscapeString(sender) \o <<"\n">>
    \o Emoji(useEmojis, "e-mail") \o SubjectLabel \o EscapeString(subject) \o <<"\n">>

\* the body as written after the label: escaped, then cut to maxLength runes
FaultyBodyText(body, maxLength) ==
    EscapeString(IF maxLength > 0 THEN truncateByRunes(body, maxLength) ELSE body)
BodyText(body, maxLength) ==
    IF maxLength > 0 THEN truncateByRunes(EscapeString(body), maxLength)
    ELSE EscapeString(body)

\* if maxLength != 0 { msg.WriteString("<i>Сообщение:</i>\n" + body) }
BodySection(body, maxLength) ==
    IF maxLength # 0 THEN BodyLabel \o BodyText(body, maxLength) ELSE << >>

\* msg.String() before the cut-marker step
Composed(useEmojis, folder, sender, subject, body, maxLength) ==
    Header(useEmojis, folder, sender, subject) \o BodySection(body, maxLength)

\* if len(cutString) != 0 { ... fullMessage[:index[0]] ... }
CutAtMarker(text, cutString) ==
    LET index == IF Len(cutString) # 0 THEN FindStringIndex(text, cutString) ELSE 0
    IN  IF index # 0 THEN SubSeq(text, 1, index - 1) ELSE text

\* the limit of a Telegram message the program keeps to
GlobalCap == 4000

\* return truncateByRunes(finalMessage, 4000)
FaultyCapped(text) == text
Capped(text) == truncateByRunes(text, GlobalCap)

\* formatMessage(folder, sender, subject, body, maxLength) under the
\* configuration values UseEmojis and CutText
formatMessage(useEmojis, cutText, folder, sender, subject, body, maxLength) ==
    Capped(CutAtMarker(Composed(useEmojis, folder, sender, subject, body, maxLength),
                       cutText))

(***************************************************************************)
(* findFolderRecursive with the handles it takes and gives back.  A handle *)
(* is <<"Folders", n>> (the child collection of n) or <<"Item", n>> (the   *)
(* folder n); the log holds the events <<"Get", h>> and <<"Release", h>>   *)
(* in the order the walk performs them.                                    *)
(***************************************************************************)
RECURSIVE walkFolders(_, _)
RECURSIVE walkChildren(_, _, _)

\* folder.Release() after the search below folder has returned
FaultyReleaseSearched(folder, subFound) ==
    IF subFound THEN << >> ELSE << <<"Release", <<"Item", folder>> >> >>
ReleaseSearched(folder, subFound) == << <<"Release", <<"Item", folder>> >> >>

\* the loop over folders.Item(i), i = 1..count
walkChildren(children, i, target) ==
    IF i > Len(children) THEN [found |-> NoFolder, log |-> << >>]
    ELSE LET folder == children[i]
             got == << <<"Get", <<"Item", folder>> >> >>
         IN  IF Name(folder) = target THEN [found |-> folder, log |-> got]
             ELSE LET sub == walkFolders(folder, target)
                      searched == got \o sub.log
                                  \o ReleaseSearched(folder, sub.found # NoFolder)
                  IN  IF sub.found # NoFolder
                      THEN [found |-> sub.found, log |-> searched]
                      ELSE LET rest == walkChildren(children, i + 1, target)
                           IN  [found |-> rest.found, log |-> searched \o rest.log]

\* findFolderRecursive(parent, target): folders is taken first and released
\* by the deferred call when the function returns
walkFolders(parent, target) ==
    LET loop == walkChildren(Folders(parent), 1, target)
    IN  [found |-> loop.found,
         log |-> << <<"Get", <<"Folders", parent>> >> >> \o loop.log
                 \o << <<"Release", <<"Folders", parent>> >> >>]

(***************************************************************************)
(* sendTelegramMessage / postJSON                                          *)
(***************************************************************************)
\* what the sink may answer: a status code and a body, JSON or not
StatusCodes == {200, 204, 400, 429, 500}
ResponseBodies == {"json", "html", "empty"}

\* resp.StatusCode != http.StatusOK is an error
FaultyStatusOK(code) == code \div 100 = 2
StatusOK(code) == code = 200

\* postJSON(url, data): the error it returns, "nil" for none.  json.Marshal
\* of the three strings cannot fail; http.NewRequest fails on a URL that does
\* not parse, client.Do on a transport error or the timeout, io.ReadAll on a
\* body that breaks off.  The body that was read is not looked into.
postJSON(urlOk, transportOk, code, readOk, body) ==
    IF ~urlOk THEN "request"
    ELSE IF ~transportOk THEN "do"
    ELSE IF ~readOk THEN "read"
    ELSE IF ~StatusOK(code) THEN "status"
    ELSE "nil"

\* sendTelegramMessage(text, chatID) returns the error of postJSON
sendTelegramMessage(urlOk, transportOk, code, readOk, body) ==
    postJSON(urlOk, transportOk, code, readOk, body)

(***************************************************************************)
(* State                                                                   *)
(***************************************************************************)
VARIABLES
    config,           \* config.Folders
    cancelled,        \* ctx.Err() != nil
    outlookRunning,   \* an OUTLOOK.EXE process exists (as of the latest provider call)
    semaphore,        \* number of tokens in the channel `semaphore`
    schedPc,          \* position of the for-loop of mainLogic
    task,             \* the cycle goroutines
    mutexMsg,         \* 0 when free, else the task holding it
    processedEmails,  \* the dedup cache
    delivered,        \* history: identities a delivery attempt succeeded for
    failed,           \* history: identities whose latest delivery attempt failed,
                      \* no later processEmail having marked them since
    lastExit,         \* history: the way the latest cycle task ended, "none"
                      \* once the next one is started
    pacing,           \* history: the interval sleeps relative to the cycles
    call,             \* PureSpec: the call of a pure function under study
    result            \* PureSpec: what the call returned, NotYet before

\* the variables of the specification of the pure functions
pure == <<call, result>>

vars == <<config, cancelled, outlookRunning, semaphore, schedPc, task, mutexMsg,
          processedEmails, delivered, failed, lastExit, pacing, pure>>

Exits == {"cancelled", "launchfail", "initfail", "nofolders", "normal", "panic"}

\* PureSpec is not running: no call, no result
NoCall == [fn |-> "none"]
NotYet == [fn |-> "none"]

IdleTask ==
    [ pc |-> "idle", exit |-> "none",
      outlook |-> FALSE, ns |-> FALSE,      \* handles held by the task
      idx |-> 1,                            \* getTargetFolders: rule index
      folders |-> << >>,                    \* map name -> folder
      todo |-> {},                          \* processFolders: names not yet ranged over
      cur |-> "", filtered |-> << >>, i |-> 1, entryID |-> "",
      \* history of this cycle
      initCalls |-> 0, killCalls |-> 0, getFolderCalls |-> 0,
      notFound |-> {}, visited |-> {}, complete |-> {}, handed |-> {},
      attempted |-> {},       \* identities a delivery attempt was made for
      owed |-> {},            \* identities read while their latest attempt had
                              \* failed, and not attempted since
      sendFailed |-> FALSE, readFailed |-> FALSE, initErr |-> FALSE,
      touched |-> FALSE,      \* some provider operation was performed
      folderRefs |-> 0,       \* folder handles getFolder returned, not released
      chatID |-> "" ]         \* processEmail: the target of the delivery at hand

Active == {t \in Tasks : task[t].pc # "idle"}

Init ==
    /\ config \in Configs
    /\ cancelled = FALSE
    /\ outlookRunning = FALSE
    /\ semaphore = 0
    /\ schedPc = "acquire"
    /\ task = [t \in Tasks |-> IdleTask]
    /\ mutexMsg = 0
    /\ processedEmails = << >>
    /\ delivered = {}
    /\ failed = {}
    /\ lastExit = "none"
    /\ pacing = [sinceStart |-> "first", afterEnd |-> "none"]
    /\ call = NoCall
    /\ result = NotYet

(***************************************************************************)
(* The scheduler loop of mainLogic                                         *)
(***************************************************************************)
\* semaphore <- struct{}{}: blocks while the channel is full
AcquireSlot ==
    /\ schedPc = "acquire"
    /\ semaphore < semaphoreCap
    /\ semaphore' = semaphore + 1
    /\ schedPc' = "go"
    /\ UNCHANGED <<pacing, pure, config, cancelled, outlookRunning, task, mutexMsg,
                   processedEmails, delivered, failed, lastExit>>

\* where the loop of mainLogic goes once the goroutine is started
FaultyAfterGo == "acquire"
AfterGo == "wait"

\* safeGoNoLog(func() {...}): a new goroutine
StartCycle ==
    /\ schedPc = "go"
    /\ \E t \in Tasks :
        /\ task[t].pc = "idle"
        /\ \A u \in Tasks : u < t => task[u].pc # "idle"
        /\ task' = [task EXCEPT ![t] = [IdleTask EXCEPT !.pc = "entry"]]
    /\ schedPc' = AfterGo
    /\ lastExit' = "none"
    /\ pacing' = [sinceStart |-> "none", afterEnd |-> "none"]
    /\ UNCHANGED <<pure, config, cancelled, outlookRunning, semaphore, mutexMsg,
                   processedEmails, delivered, failed>>

\* waitNextCheck(): time.Sleep(interval) is entered, the interval being 10 s
\* when the configured one is not positive
waitNextCheck ==
    /\ schedPc = "wait"
    /\ schedPc' = "sleeping"
    /\ pacing' = [sinceStart |-> "sleeping",
                  afterEnd |-> IF pacing.afterEnd = "ended" THEN "sleeping"
                               ELSE pacing.afterEnd]
    /\ UNCHANGED <<pure, config, cancelled, outlookRunning, semaphore, task, mutexMsg,
                   processedEmails, delivered, failed, lastExit>>

\* time.Sleep(interval) returns after the whole interval; the loop goes round
waitNextCheckReturns ==
    /\ schedPc = "sleeping"
    /\ schedPc' = "acquire"
    /\ pacing' = [sinceStart |-> "slept",
                  afterEnd |-> IF pacing.afterEnd = "sleeping" THEN "slept"
                               ELSE pacing.afterEnd]
    /\ UNCHANGED <<pure, config, cancelled, outlookRunning, semaphore, task, mutexMsg,
                   processedEmails, delivered, failed, lastExit>>

(***************************************************************************)
(* The cycle task                                                          *)
(***************************************************************************)
\* the task returns (exit e); its deferred calls run in TaskEnd
Ret(r, e) == [r EXCEPT !.pc = "ret", !.exit = e]

\* a panic unwinds the task up to the recover() of safeGoNoLog
Crash(r) == Ret(r, "panic")

\* ctx.Err() != nil at the entry of the cycle task
FaultyCancelledAtEntry(ctxDone) == FALSE
CancelledAtEntry(ctxDone) == ctxDone

\* if ctx.Err() != nil { return }; time.Sleep(time.Second)
CycleEntry(t) ==
    /\ task[t].pc = "entry"
    /\ task' = [task EXCEPT ![t] =
                  IF CancelledAtEntry(cancelled) THEN Ret(@, "cancelled")
                  ELSE [@ EXCEPT !.pc = "isRunning"]]
    /\ UNCHANGED <<pacing, pure, config, cancelled, outlookRunning, semaphore, schedPc, mutexMsg,
                   processedEmails, delivered, failed, lastExit>>

\* if !isOutlookRunning(): false also when the process list cannot be read.
\* The mail client may have been started or closed by the user since the
\* program last dealt with it: alive is what the process list holds now.
isOutlookRunning(t) ==
    /\ task[t].pc = "isRunning"
    /\ \E alive \in BOOLEAN, listErr \in BOOLEAN :
         LET running == alive /\ ~listErr
         IN  /\ outlookRunning' = alive
             /\ task' = [task EXCEPT ![t].pc = IF running THEN "init" ELSE "start",
                                      ![t].touched = TRUE]
    /\ UNCHANGED <<pacing, pure, config, cancelled, semaphore, schedPc, mutexMsg,
                   processedEmails, delivered, failed, lastExit>>

\* mainLogic: the `return` after a failed startOutlook; the place the task
\* goes on at
FaultyAfterLaunchFailure == "kill"
AfterLaunchFailure == "ret"

\* if err := startOutlook(); err != nil { return }
startOutlook(t) ==
    /\ task[t].pc = "start"
    /\ \E ok \in BOOLEAN :
         IF ok
         THEN /\ task' = [task EXCEPT ![t].pc = "afterStart"]
              /\ outlookRunning' = TRUE
         ELSE /\ task' = [task EXCEPT ![t] =
                            IF AfterLaunchFailure = "ret" THEN Ret(@, "launchfail")
                            ELSE [@ EXCEPT !.pc = AfterLaunchFailure]]
              /\ UNCHANGED outlookRunning
    /\ UNCHANGED <<pacing, pure, config, cancelled, semaphore, schedPc, mutexMsg,
                   processedEmails, delivered, failed, lastExit>>

\* if ctx.Err() != nil { return }; time.Sleep(45 * time.Second)
CheckAfterStart(t) ==
    /\ task[t].pc = "afterStart"
    /\ task' = [task EXCEPT ![t] =
                  IF cancelled THEN Ret(@, "cancelled") ELSE [@ EXCEPT !.pc = "init"]]
    /\ UNCHANGED <<pacing, pure, config, cancelled, outlookRunning, semaphore, schedPc, mutexMsg,
                   processedEmails, delivered, failed, lastExit>>

\* outlook, ns, err := initializeOutlook()
\*   "error": GetActiveObject and CreateObject fail, or QueryInterface fails
\*   "panic": MustCallMethod(outlook, "GetNamespace") panics
initializeOutlook(t) ==
    /\ task[t].pc = "init"
    /\ \E res \in {"ok", "error", "panic"} :
         LET r == [task[t] EXCEPT !.initCalls = @ + 1]
         IN  CASE res = "ok" ->
                    /\ task' = [task EXCEPT ![t] =
                                  [r EXCEPT !.pc = "getFolders", !.outlook = TRUE, !.ns = TRUE]]
                    /\ outlookRunning' = TRUE
               [] res = "error" ->
                    /\ task' = [task EXCEPT ![t] = [r EXCEPT !.pc = "kill", !.initErr = TRUE]]
                    /\ UNCHANGED outlookRunning
               [] res = "panic" ->
                    /\ task' = [task EXCEPT ![t] = Crash(r)]
                    /\ outlookRunning' = TRUE
    /\ UNCHANGED <<pacing, pure, config, cancelled, semaphore, schedPc, mutexMsg,
                   processedEmails, delivered, failed, lastExit>>

\* err = killOutlookProcess(); return
killOutlookProcess(t) ==
    /\ task[t].pc = "kill"
    /\ \E killed \in BOOLEAN :
         outlookRunning' = IF killed THEN FALSE ELSE outlookRunning
    /\ LET r == [task[t] EXCEPT !.killCalls = @ + 1]
       IN  task' = [task EXCEPT ![t] =
                      IF AfterKill = "ret" THEN Ret(r, "initfail")
                      ELSE [r EXCEPT !.pc = AfterKill]]
    /\ UNCHANGED <<pacing, pure, config, cancelled, semaphore, schedPc, mutexMsg,
                   processedEmails, delivered, failed, lastExit>>

(***************************************************************************)
(* getTargetFolders: one step per folder rule                              *)
(***************************************************************************)
\* folder, err := getFolder(ns, folderCfg.Name); a Must* call of the walk may panic
getTargetFolders(t) ==
    /\ task[t].pc = "getFolders"
    /\ task[t].idx <= Len(config)
    /\ \E res \in {"ok", "panic"} :
         LET name == config[task[t].idx].Name
             folder == getFolder(name)
             r == [task[t] EXCEPT !.getFolderCalls = @ + 1]
         IN  task' = [task EXCEPT ![t] =
                 IF res = "panic" THEN Crash(r)
                 ELSE IF folder = NoFolder
                 THEN [r EXCEPT !.notFound = @ \cup {name},
                                !.idx = NextRuleAfterError(r.idx, Len(config))]
                 ELSE [r EXCEPT !.folders = Store(@, name, folder), !.idx = @ + 1,
                                !.folderRefs = @ + 1]]
    /\ UNCHANGED <<pacing, pure, config, cancelled, outlookRunning, semaphore, schedPc, mutexMsg,
                   processedEmails, delivered, failed, lastExit>>

\* if len(folders) == 0 { releaseObjects(outlook, ns); return }; processFolders(folders)
CheckFolders(t) ==
    /\ task[t].pc = "getFolders"
    /\ task[t].idx > Len(config)
    /\ task' = [task EXCEPT ![t] =
                  IF DOMAIN task[t].folders = {}
                  THEN Ret([@ EXCEPT !.outlook = FALSE, !.ns = FALSE], "nofolders")
                  ELSE [@ EXCEPT !.pc = "processFolders", !.todo = DOMAIN task[t].folders]]
    /\ UNCHANGED <<pacing, pure, config, cancelled, outlookRunning, semaphore, schedPc, mutexMsg,
                   processedEmails, delivered, failed, lastExit>>

(***************************************************************************)
(* processFolders                                                          *)
(***************************************************************************)
\* for folderName, folder := range folders: Items, Restrict("[UnRead] = true"), Count;
\* the range order of a Go map is not fixed; u is the set of items unread now
processFolders(t) ==
    /\ task[t].pc = "processFolders"
    /\ task[t].todo # {}
    /\ \E name \in task[t].todo, res \in {"ok", "panic"} :
         LET folder == task[t].folders[name]
             r == [task[t] EXCEPT !.visited = @ \cup {name}]
         IN  IF res = "panic"
             THEN task' = [task EXCEPT ![t] = Crash(r)]
             ELSE \E u \in SUBSET {Items(folder)[k] : k \in 1..Len(Items(folder))} :
                    LET filtered == Restrict(Items(folder), u)
                    IN  task' = [task EXCEPT ![t] =
                          IF Len(filtered) = 0
                          THEN [r EXCEPT !.todo = @ \ {name}, !.complete = @ \cup {name}]
                          ELSE [r EXCEPT !.pc = "item", !.cur = name, !.filtered = filtered,
                                         !.i = 1, !.handed = {}]]
    /\ UNCHANGED <<pacing, pure, config, cancelled, outlookRunning, semaphore, schedPc, mutexMsg,
                   processedEmails, delivered, failed, lastExit>>

\* the range loop is over: processFolders returns to mainLogic
processFoldersDone(t) ==
    /\ task[t].pc = "processFolders"
    /\ task[t].todo = {}
    /\ task' = [task EXCEPT ![t].pc = "release"]
    /\ UNCHANGED <<pacing, pure, config, cancelled, outlookRunning, semaphore, schedPc, mutexMsg,
                   processedEmails, delivered, failed, lastExit>>

\* processEmail has returned for item i: item.Release(); i++, or the next folder;
\* goOn = FALSE leaves processFolders at once
NextItem(r, goOn) ==
    IF ~goOn THEN [r EXCEPT !.pc = "release"]
    ELSE IF r.i < Len(r.filtered) THEN [r EXCEPT !.pc = "item", !.i = @ + 1]
    ELSE [r EXCEPT !.pc = "processFolders", !.todo = @ \ {r.cur},
                   !.complete = IF r.handed = 1..Len(r.filtered) THEN @ \cup {r.cur} ELSE @]

(***************************************************************************)
(* processEmail                                                            *)
(***************************************************************************)
\* item := filtered.Item(i) (may panic); processEmail: GetProperty(item, "EntryID"),
\* whose error makes processEmail return
GetItem(t) ==
    /\ task[t].pc = "item"
    /\ \E res \in {"ok", "idErr", "panic"} :
         LET r == task[t]
         IN  task' = [task EXCEPT ![t] =
                 CASE res = "panic" -> Crash(r)
                   [] res = "idErr" ->
                        NextItem([r EXCEPT !.handed = @ \cup {r.i}], TRUE)
                   [] res = "ok" ->
                        [r EXCEPT !.handed = @ \cup {r.i}, !.entryID = r.filtered[r.i],
                                  !.owed = @ \cup ({r.filtered[r.i]} \cap failed),
                                  !.pc = "lock"]]
    /\ UNCHANGED <<pacing, pure, config, cancelled, outlookRunning, semaphore, schedPc, mutexMsg,
                   processedEmails, delivered, failed, lastExit>>

\* config.Telegram.DefaultChatID
DefaultChatID == "chatDefault"

\* a loop over config.Folders without the break: the last rule of the name
FaultyFolderConfig(cfg, folderName) ==
    LET hits == {k \in 1..Len(cfg) : cfg[k].Name = folderName}
    IN  IF hits = {} THEN Rule("", "", 0)
        ELSE cfg[CHOOSE k \in hits : \A j \in hits : j <= k]

\* var folderConfig Folder; for _, f := range config.Folders
\* { if f.Name == folderName { folderConfig = f; break } }
folderConfig(cfg, folderName) ==
    LET hits == {k \in 1..Len(cfg) : cfg[k].Name = folderName}
    IN  IF hits = {} THEN Rule("", "", 0)
        ELSE cfg[CHOOSE k \in hits : \A j \in hits : k <= j]

\* chatID := folderConfig.ChatID; if chatID == "" { chatID = DefaultChatID }
chatID(cfg, folderName) ==
    IF folderConfig(cfg, folderName).ChatID = "" THEN DefaultChatID
    ELSE folderConfig(cfg, folderName).ChatID

\* a Lock that does not wait
FaultyLockFree(m) == TRUE

\* mutexMsg.Lock() returns once no goroutine holds the mutex
LockFree(m) == m = 0

\* an Unlock that is no deferred call: a panic passes it by
FaultyUnlock(holder, how) == IF how = "panic" THEN holder ELSE 0

\* defer mutexMsg.Unlock(): runs when processEmail returns and when a panic
\* unwinds it; the value of mutexMsg afterwards
Unlock(holder, how) == 0

\* mutexMsg.Lock(); defer mutexMsg.Unlock();
\* if processedEmails[entryID] { return }; processedEmails[entryID] = true
CheckAndMark(t) ==
    /\ task[t].pc = "lock"
    /\ LockFree(mutexMsg)
    /\ IF AlreadySent(processedEmails, task[t].entryID)
       THEN /\ task' = [task EXCEPT ![t] = NextItem(@, TRUE)]
            /\ UNCHANGED <<mutexMsg, processedEmails, failed>>
       ELSE /\ task' = [task EXCEPT ![t].pc = "fields"]
            /\ mutexMsg' = t
            /\ processedEmails' = Store(processedEmails, task[t].entryID, TRUE)
            /\ failed' = failed \ {task[t].entryID}
    /\ UNCHANGED <<pacing, pure, config, cancelled, outlookRunning, semaphore, schedPc,
                   delivered, lastExit>>

\* MustGetProperty SenderName, SenderEmailAddress, Subject, Body: a failed read
\* panics; the deferred Unlock runs while the panic unwinds
ReadFields(t) ==
    /\ task[t].pc = "fields"
    /\ \E ok \in BOOLEAN :
         IF ok
         THEN /\ task' = [task EXCEPT ![t].pc = "send",
                                       ![t].chatID = chatID(config, task[t].cur)]
              /\ UNCHANGED mutexMsg
         ELSE /\ task' = [task EXCEPT ![t] = Crash([@ EXCEPT !.readFailed = TRUE])]
              /\ mutexMsg' = Unlock(t, "panic")
    /\ UNCHANGED <<pacing, pure, config, cancelled, outlookRunning, semaphore, schedPc,
                   processedEmails, delivered, failed, lastExit>>

\* formatMessage; sendTelegramMessage(message, chatID); rollback on error; return
Send(t) ==
    /\ task[t].pc = "send"
    /\ \E res \in SendResults :
         LET id == task[t].entryID
             ok == SendOk(res)
             r == [task[t] EXCEPT !.attempted = @ \cup {id}, !.owed = @ \ {id},
                                  !.sendFailed = @ \/ ~ok, !.chatID = ""]
         IN  /\ processedEmails' = AfterSend(processedEmails, id, ok)
             /\ delivered' = IF ok THEN delivered \cup {id} ELSE delivered
             /\ failed' = IF ok THEN failed \ {id} ELSE failed \cup {id}
             /\ task' = [task EXCEPT ![t] = NextItem(r, ContinueAfterEmail(ok))]
    /\ mutexMsg' = Unlock(t, "return")
    /\ UNCHANGED <<pacing, pure, config, cancelled, outlookRunning, semaphore, schedPc, lastExit>>

(***************************************************************************)
(* The end of the cycle task                                               *)
(***************************************************************************)
\* releaseObjects(outlook, ns) as the last statement of the task
releaseObjects(t) ==
    /\ task[t].pc = "release"
    /\ task' = [task EXCEPT ![t] = Ret([@ EXCEPT !.outlook = FALSE, !.ns = FALSE], "normal")]
    /\ UNCHANGED <<pacing, pure, config, cancelled, outlookRunning, semaphore, schedPc, mutexMsg,
                   processedEmails, delivered, failed, lastExit>>

\* the deferred calls of the task and the recover() of safeGoNoLog: the slot is
\* given back and the goroutine ends
TaskEnd(t) ==
    /\ task[t].pc = "ret"
    /\ semaphore' = ReleaseSlot(semaphore, task[t].exit)
    /\ lastExit' = task[t].exit
    /\ pacing' = [pacing EXCEPT !.afterEnd = "ended"]
    /\ task' = [task EXCEPT ![t] = IdleTask]
    /\ UNCHANGED <<pure, config, cancelled, outlookRunning, schedPc, mutexMsg,
                   processedEmails, delivered, failed>>

(***************************************************************************)
(* The environment                                                         *)
(***************************************************************************)
\* cancel() of the context handed to mainLogic
Cancel ==
    /\ ~cancelled
    /\ cancelled' = TRUE
    /\ UNCHANGED <<pacing, pure, config, outlookRunning, semaphore, schedPc, task, mutexMsg,
                   processedEmails, delivered, failed, lastExit>>

(***************************************************************************)
(* Specifications                                                          *)
(***************************************************************************)
Scheduler == AcquireSlot \/ StartCycle \/ waitNextCheck \/ waitNextCheckReturns

TaskStep(t) ==
    \/ CycleEntry(t)
    \/ isOutlookRunning(t)
    \/ startOutlook(t)
    \/ CheckAfterStart(t)
    \/ initializeOutlook(t)
    \/ killOutlookProcess(t)
    \/ getTargetFolders(t)
    \/ CheckFolders(t)
    \/ processFolders(t)
    \/ processFoldersDone(t)
    \/ GetItem(t)
    \/ CheckAndMark(t)
    \/ ReadFields(t)
    \/ Send(t)
    \/ releaseObjects(t)
    \/ TaskEnd(t)

Next ==
    \/ Scheduler
    \/ \E t \in Tasks : TaskStep(t)
    \/ Cancel

Spec == Init /\ [][Next]_vars

\* every provider and network call returns, and the Go scheduler runs every
\* runnable goroutine: the loop of mainLogic and the cycle tasks
FairSpec ==
    /\ Spec
    /\ WF_vars(Scheduler)
    /\ \A t \in Tasks : WF_vars(TaskStep(t))

(***************************************************************************)
(* The pure functions: formatMessage, findFolderRecursive, postJSON.  One  *)
(* call is drawn from Calls and the function is applied to it.             *)
(***************************************************************************)
\* the configured cut markers (validateConfig: empty, or four bytes and more):
\* none, a plain one, one html.EscapeString alters
CutTexts == {<< >>, <<"-", "e", "n", "d">>, <<"<", "e", "n", "d">>}

\* folder name, sender and subject of a notification
Headers ==
    { [folder |-> <<"I">>, sender |-> <<"s">>, subject |-> <<"t">>],
      [folder |-> <<"<">>, sender |-> <<"&">>, subject |-> <<"-", "E", "n", "d">>] }

\* bodies that take the composed text to the global cap and beyond
LongBodies ==
    {Rep("a", n) : n \in {GlobalCap - 72, GlobalCap - 71, GlobalCap - 70}}
    \cup {Rep("a", GlobalCap + 5) \o <<"-", "e", "n", "d", "a">>}

Bodies == {Flatten(ps) : ps \in SeqsUpTo(BodyPieces, MaxBody)} \cup LongBodies

\* the MessageLength of a folder rule (validateConfig: 0..4000); 0 is also
\* what processEmail passes for a folder without a rule
MaxLengths == {0, 1, 2, 6, GlobalCap}

FormatCalls ==
    [fn : {"formatMessage"}, useEmojis : BOOLEAN, cutText : CutTexts,
     header : Headers, body : Bodies, maxLength : MaxLengths]

FolderNames == {Name(n) : n \in Nodes \ {0}} \cup {"Missing"}

ResolveCalls == [fn : {"findFolderRecursive"}, parent : Nodes, target : FolderNames]

PostCalls ==
    [fn : {"postJSON"}, urlOk : BOOLEAN, transportOk : BOOLEAN, code : StatusCodes,
     readOk : BOOLEAN, body : ResponseBodies]

Calls == FormatCalls \cup ResolveCalls \cup PostCalls

\* the pipeline stands still
PipelineIdle ==
    /\ config = CHOOSE c \in Configs : Len(c) = 1
    /\ cancelled = FALSE
    /\ outlookRunning = FALSE
    /\ semaphore = 0
    /\ schedPc = "acquire"
    /\ task = [t \in Tasks |-> IdleTask]
    /\ mutexMsg = 0
    /\ processedEmails = << >>
    /\ delivered = {}
    /\ failed = {}
    /\ lastExit = "none"
    /\ pacing = [sinceStart |-> "first", afterEnd |-> "none"]

pipeline == <<config, cancelled, outlookRunning, semaphore, schedPc, task, mutexMsg,
              processedEmails, delivered, failed, lastExit, pacing>>

PureInit ==
    /\ PipelineIdle
    /\ call \in Calls
    /\ result = NotYet

CallFormatMessage ==
    /\ call.fn = "formatMessage"
    /\ result.fn = "none"
    /\ result' = [fn |-> "formatMessage",
                  text |-> formatMessage(call.useEmojis, call.cutText, call.header.folder,
                                         call.header.sender, call.header.subject,
                                         call.body, call.maxLength)]
    /\ UNCHANGED <<call, pipeline>>

CallFindFolderRecursive ==
    /\ call.fn = "findFolderRecursive"
    /\ result.fn = "none"
    /\ result' = [fn |-> "findFolderRecursive",
                  folder |-> findFolderRecursive(call.parent, call.target),
                  walk |-> walkFolders(call.parent, call.target)]
    /\ UNCHANGED <<call, pipeline>>

CallPostJSON ==
    /\ call.fn = "postJSON"
    /\ result.fn = "none"
    /\ result' = [fn |-> "postJSON",
                  err |-> sendTelegramMessage(call.urlOk, call.transportOk, call.code,
                                              call.readOk, call.body)]
    /\ UNCHANGED <<call, pipeline>>

PureNext == CallFormatMessage \/ CallFindFolderRecursive \/ CallPostJSON

PureSpec == PureInit /\ [][PureNext]_vars

(***************************************************************************)
(* The pipeline with the guard relaxed: the semaphore takes one token more *)
(* than it does in the program, so two cycle tasks run side by side.       *)
(***************************************************************************)
\* the configuration whose rules resolve to one folder under two names: both
\* tasks meet the same items, twice each
RelaxedConfig == CHOOSE c \in Configs : Len(c) = 3 /\ c[3].Name = "Inbox"

\* a cycle task that has attached to the provider and resolved the folders of
\* RelaxedConfig, about to enter processFolders
ResolvedTask ==
    [IdleTask EXCEPT !.pc = "processFolders", !.outlook = TRUE, !.ns = TRUE,
                     !.idx = Len(RelaxedConfig) + 1,
                     !.folders = [n \in {"Inbox", DefaultInboxName} |-> GetDefaultFolder],
                     !.todo = {"Inbox", DefaultInboxName},
                     !.initCalls = 1, !.getFolderCalls = Len(RelaxedConfig),
                     !.touched = TRUE, !.folderRefs = Len(RelaxedConfig)]

\* the scheduler has started a second task while the first was running; both
\* have come to processFolders
RelaxedInit ==
    /\ config = RelaxedConfig
    /\ cancelled = FALSE
    /\ outlookRunning = TRUE
    /\ semaphore = semaphoreCap + 1
    /\ schedPc = "wait"
    /\ task = [t \in Tasks |-> IF t <= semaphoreCap + 1 THEN ResolvedTask ELSE IdleTask]
    /\ mutexMsg = 0
    /\ processedEmails = << >>
    /\ delivered = {}
    /\ failed = {}
    /\ lastExit = "none"
    /\ pacing = [sinceStart |-> "none", afterEnd |-> "none"]
    /\ call = NoCall
    /\ result = NotYet

\* the two tasks go through processFolders to their end
RelaxedNext ==
    \E t \in Tasks :
        \/ processFolders(t)
        \/ processFoldersDone(t)
        \/ GetItem(t)
        \/ CheckAndMark(t)
        \/ ReadFields(t)
        \/ Send(t)
        \/ releaseObjects(t)
        \/ TaskEnd(t)

\* the pipeline from its start with a semaphore of one token more
RelaxedAcquireSlot ==
    /\ schedPc = "acquire"
    /\ semaphore < semaphoreCap + 1
    /\ semaphore' = semaphore + 1
    /\ schedPc' = "go"
    /\ UNCHANGED <<pacing, pure, config, cancelled, outlookRunning, task, mutexMsg,
                   processedEmails, delivered, failed, lastExit>>

FullRelaxedSpec ==
    /\ Init
    /\ [][\/ RelaxedAcquireSlot \/ StartCycle \/ waitNextCheck \/ waitNextCheckReturns
          \/ \E t \in Tasks : TaskStep(t)]_vars

RelaxedSpec == RelaxedInit /\ [][RelaxedNext]_vars

TypeOK ==
    /\ config \in Configs
    /\ cancelled \in BOOLEAN
    /\ outlookRunning \in BOOLEAN
    /\ semaphore \in 0..semaphoreCap
    /\ schedPc \in {"acquire", "go", "wait", "sleeping"}
    /\ pacing \in [sinceStart : {"first", "none", "sleeping", "slept"},
                   afterEnd : {"none", "ended", "sleeping", "slept"}]
    /\ mutexMsg \in {0} \cup Tasks
    /\ DOMAIN processedEmails \subseteq EntryIDs
    /\ delivered \subseteq EntryIDs
    /\ failed \subseteq EntryIDs
    /\ lastExit \in Exits \cup {"none"}

(***************************************************************************)
(* Properties                                                              *)
(***************************************************************************)
\* a task is inside processEmail, between Lock and the deferred Unlock
InProcessEmail(t) == task[t].pc \in {"fields", "send"}

\* C1: poll cycles never overlap: at most one cycle task exists between the
\* scheduler's send on the capacity-1 semaphore and the task's release of it,
\* however the cycle's steps interleave with the interval sleep
NoOverlappingCycles == Cardinality(Active) <= 1

\* C1: a cycle still busy delivering when the interval has elapsed and the
\* scheduler is back at the guard
CycleOutlastsInterval ==
    \E t \in Tasks : task[t].pc = "send" /\ schedPc = "acquire" /\ semaphore = semaphoreCap

\* C2: no double-send: no delivery attempt is ever about to be made for an
\* identity a delivery attempt has already succeeded for
NoDoubleSend == \A t \in Tasks : task[t].pc = "send" => task[t].entryID \notin delivered

\* C2: an identity delivered in an earlier cycle has been enumerated again and
\* passed over without an attempt
DeliveredSeenAgain ==
    \E t \in Tasks :
        /\ task[t].pc \in {"item", "processFolders"}
        /\ task[t].entryID \in delivered
        /\ task[t].entryID \notin task[t].attempted

\* C3: rollback on delivery failure: once processEmail has returned from a
\* failed delivery the identity's flag is false, and a cycle that reads the
\* identity again makes a new delivery attempt for it (outside processEmail no
\* such identity is left without its attempt, unless a field read panicked)
RollbackOnFailure ==
    /\ \A id \in failed : ~Lookup(processedEmails, id)
    /\ \A t \in Tasks :
         (task[t].pc \notin {"lock", "fields", "send"} /\ ~task[t].readFailed)
            => task[t].owed = {}

\* C3: an identity whose delivery failed in an earlier cycle is at its new
\* delivery attempt
RetryInLaterCycle ==
    \E t \in Tasks :
        /\ task[t].pc = "send"
        /\ task[t].entryID \in task[t].owed
        /\ task[t].entryID \notin task[t].attempted

\* C4: dedup invariant: whenever no item is in the middle of being processed,
\* every identity marked delivered in the cache has had a successful delivery
\* attempt, also after a cycle that crashed between the mark and the delivery
MarkedOnlyIfDelivered ==
    (\A t \in Tasks : ~InProcessEmail(t))
        => \A id \in DOMAIN processedEmails : processedEmails[id] => id \in delivered

\* every token in the semaphore belongs to a live cycle task, or to the one the
\* scheduler is about to start
SlotAccounting ==
    semaphore = Cardinality(Active) + (IF schedPc = "go" THEN 1 ELSE 0)

\* C5: guard release and crash isolation: a cycle task that ends by any path
\* (cancellation, launch failure, initialization failure, no folders, normal
\* end, caught panic) gives the slot back, the scheduler loop keeps running
\* and a later cycle is eventually started
GuardReleasedOnEveryExit ==
    /\ []SlotAccounting
    /\ \A e \in Exits : (lastExit = e) ~> (lastExit = "none")

\* C5: a cycle task has ended in a caught panic and its slot is free again
SlotFreeAfterPanic == lastExit = "panic" /\ semaphore = 0 /\ schedPc = "acquire"

\* C6: session release on every exit path: when the cycle task ends, the
\* application and namespace handles it got from initializeOutlook are released
SessionReleasedAtExit ==
    \A t \in Tasks : task[t].pc = "ret" => ~task[t].outlook /\ ~task[t].ns

\* C7: a delivery failure does not abort sibling work: in a cycle with a failed
\* delivery no item of the folder is passed over, and when the task gets to the
\* end of processFolders every resolved folder has had all its unread items
\* handed to processEmail
FailureKeepsSiblings ==
    \A t \in Tasks : task[t].sendFailed =>
        /\ task[t].pc = "item" => task[t].handed = 1..(task[t].i - 1)
        /\ (task[t].pc \in {"release", "ret"} /\ task[t].exit # "panic")
              => (task[t].todo = {} /\ task[t].complete = DOMAIN task[t].folders)

\* C7: a cycle in which the delivery for e1 failed went on to e2 of the same
\* folder and to e3 of the other folder, and ended normally
SiblingsAfterFailure ==
    \E t \in Tasks :
        /\ task[t].pc = "ret" /\ task[t].exit = "normal"
        /\ "e1" \in failed
        /\ task[t].attempted = {"e1", "e2", "e3"}

\* C8: an item-field read failure is per-item: a cycle in which the read of a
\* field of some item failed still ends normally, with every resolved folder
\* completely processed
FieldReadFailureSkipsOnlyItem ==
    \A t \in Tasks : (task[t].pc = "ret" /\ task[t].readFailed) =>
        /\ task[t].exit = "normal"
        /\ task[t].complete = DOMAIN task[t].folders

\* the configured folder names the mailbox has a folder for
Resolvable == {config[k].Name : k \in {j \in 1..Len(config) : getFolder(config[j].Name) # NoFolder}}

\* C9: folder-not-found is non-fatal: a cycle that got through folder
\* resolution has resolved every configured folder that exists, whatever
\* folders were not found, and at its end their unread items are all processed
NotFoundKeepsOtherFolders ==
    \A t \in Tasks :
        /\ task[t].pc \in {"processFolders", "item", "lock", "fields", "send", "release"}
              => DOMAIN task[t].folders = Resolvable
        /\ (task[t].pc = "ret" /\ task[t].exit \in {"normal", "nofolders"})
              => (DOMAIN task[t].folders = Resolvable /\ task[t].complete = Resolvable)

\* C9: a cycle did not find "Missing", resolved "Invoices" after it and
\* delivered its item
FolderAfterMissingOne ==
    \E t \in Tasks :
        /\ task[t].pc = "ret" /\ task[t].exit = "normal"
        /\ "Missing" \in task[t].notFound
        /\ "Invoices" \in task[t].complete
        /\ "e3" \in task[t].attempted

\* C10: initialization failure aborts the cycle after a forced reset: once
\* initializeOutlook has failed, killOutlookProcess is called (once) and the
\* task returns; the cycle has one initialization attempt, no folder
\* resolution and no delivery attempt
InitFailureAbortsCycle ==
    \A t \in Tasks :
        /\ task[t].initCalls <= 1
        /\ task[t].initErr =>
             /\ \/ task[t].pc = "kill" /\ task[t].killCalls = 0
                \/ task[t].pc = "ret" /\ task[t].exit = "initfail" /\ task[t].killCalls = 1
             /\ task[t].getFolderCalls = 0
             /\ task[t].attempted = {}
        /\ task[t].killCalls > 0 => task[t].initErr

\* C10: a cycle has ended after a failed initialization and the forced reset
AbortedAfterKill ==
    \E t \in Tasks :
        /\ task[t].pc = "ret" /\ task[t].exit = "initfail"
        /\ task[t].killCalls = 1 /\ task[t].initCalls = 1

\* the step of a cycle task that finds the context cancelled at its entry
CancelledEntryStep(t) ==
    /\ task[t].pc = "entry"
    /\ cancelled
    /\ task'[t] # task[t]

\* C11: a cycle task that finds the context cancelled at its entry returns at
\* once: no provider operation is performed, the dedup cache is left as it
\* is, no delivery attempt is made, and when the task ends its slot of the
\* semaphore is given back
CancelledEntryTouchesNothing ==
    /\ [][\A t \in Tasks :
            CancelledEntryStep(t) =>
                /\ task'[t] = Ret(task[t], "cancelled")
                /\ ~task'[t].touched
                /\ task'[t].attempted = {}
                /\ task'[t].initCalls = 0 /\ task'[t].getFolderCalls = 0
                /\ task'[t].handed = {}
                /\ UNCHANGED <<processedEmails, delivered, failed, outlookRunning>>]_vars
    /\ [][\A t \in Tasks :
            task[t].pc = "ret" /\ ~task[t].touched /\ task'[t].pc = "idle" =>
                /\ semaphore' = semaphore - 1
                /\ UNCHANGED <<processedEmails, delivered, failed, outlookRunning>>]_vars

\* C11: a cycle task has returned from its entry because of the cancellation,
\* the dedup cache holding marks of an earlier cycle
CancelledAtEntryReturned ==
    \E t \in Tasks :
        /\ task[t].pc = "ret" /\ task[t].exit = "cancelled" /\ ~task[t].touched
        /\ DOMAIN processedEmails # {}

\* C12: when the scheduler is about to start a cycle after an earlier one,
\* a whole interval sleep began and ended after the earlier cycle completed
SleepAfterCompletion ==
    schedPc = "go" /\ pacing.sinceStart # "first" => pacing.afterEnd = "slept"

\* C12: between the start of one cycle and the start of the next the
\* scheduler performs a whole interval sleep, entered once the cycle task is
\* launched and running along with it; the next cycle starts when both the
\* sleep has ended and the earlier cycle has completed
SleepBetweenStarts ==
    /\ schedPc = "go" /\ pacing.sinceStart # "first" =>
            /\ pacing.sinceStart = "slept"
            /\ pacing.afterEnd \in {"ended", "slept"}
            /\ Active = {}
    /\ schedPc = "sleeping" => pacing.sinceStart = "sleeping"

\* C12: the scheduler is about to start a cycle, the earlier cycle having
\* completed only after the interval sleep had been entered
StartAfterLongCycle ==
    schedPc = "go" /\ pacing.sinceStart = "slept" /\ pacing.afterEnd = "ended"

\* processEmail has been handed the item id and is at the dedup check
AtDedupCheck(id) == \E t \in Tasks : task[t].pc = "lock" /\ task[t].entryID = id

\* a delivery attempt for the item id is about to be made
AtDelivery(id) == \E t \in Tasks : task[t].pc = "send" /\ task[t].entryID = id

\* C13: eventual relay: under fair scheduling, an item that stays unread in a
\* resolved folder (processEmail is handed it again and again) and whose
\* delivery succeeds at some time if it is attempted again and again is
\* eventually delivered, also after cycles that failed to deliver it or
\* crashed while processing it
EventualRelay ==
    \A id \in EntryIDs :
        ( /\ []<>AtDedupCheck(id)
          /\ ([]<>AtDelivery(id) => <>(id \in delivered)) )
            => <>(id \in delivered)

(***************************************************************************)
(* Properties of the pure functions (PureSpec)                             *)
(***************************************************************************)
\* formatMessage has returned
Formatted == call.fn = "formatMessage" /\ result.fn = "formatMessage"

\* the header lines of the call in hand
CallHeader ==
    Header(call.useEmojis, call.header.folder, call.header.sender, call.header.subject)

\* s from position i on
From(s, i) == SubSeq(s, i, Len(s))

\* p is a prefix of s
IsPrefix(p, s) == Len(p) <= Len(s) /\ SubSeq(s, 1, Len(p)) = p

\* the positions at which marker occurs in text, the case of letters ignored
Occurrences(text, marker) ==
    {i \in 1..(Len(text) - Len(marker) + 1) :
        \A k \in 1..Len(marker) : Fold(text[i + k - 1]) = Fold(marker[k])}

\* the least element of a non-empty set of numbers
Least(S) == CHOOSE i \in S : \A j \in S : i <= j

\* C14: formatter body policy, no cut marker configured and the composed text
\* within the global cap: the result is the header, followed by nothing for
\* maxLength = 0, by the label and the first N runes of the escaped body plus
\* the ellipsis for maxLength = N > 0 and an escaped body longer than N, and
\* by the label and the whole escaped body for one of at most N runes
FormatterBodyPolicy ==
    Formatted /\ call.cutText = << >> =>
        LET escaped == EscapeString(call.body)
            N == call.maxLength
            section == From(result.text, Len(CallHeader) + 1)
        IN  Len(CallHeader) + Len(BodyLabel) + Len(escaped) <= GlobalCap =>
              /\ IsPrefix(CallHeader, result.text)
              /\ N = 0 => section = << >>
              /\ N > 0 /\ Len(escaped) > N =>
                    section = BodyLabel \o SubSeq(escaped, 1, N) \o Ellipsis
              /\ N > 0 /\ Len(escaped) <= N => section = BodyLabel \o escaped

\* C14: a body of two runes whose escaped form is longer than the limit of two
\* has been cut inside the escaped form
EscapedBodyTruncated ==
    /\ Formatted /\ call.cutText = << >>
    /\ call.maxLength = 2 /\ call.body = <<"<", "a">>
    /\ From(result.text, Len(CallHeader) + 1) = BodyLabel \o <<"&", "l">> \o Ellipsis

\* C15: global cap: whatever maxLength is, a composed text (header and body
\* after the per-folder truncation and the cut marker) of more than 4000 runes
\* comes back as its first 4000 runes and the ellipsis, any other unchanged
GlobalCapApplied ==
    Formatted =>
        LET text == CutAtMarker(Composed(call.useEmojis, call.header.folder,
                                         call.header.sender, call.header.subject,
                                         call.body, call.maxLength), call.cutText)
        IN  /\ Len(text) > 4000 => result.text = SubSeq(text, 1, 4000) \o Ellipsis
            /\ Len(text) <= 4000 => result.text = text
            /\ Len(result.text) <= 4000 + Len(Ellipsis)

\* C15: a message has been capped whose body the limit of the folder rule,
\* the largest there is, had left whole
CappedWithinFolderLimit ==
    /\ Formatted
    /\ call.maxLength = 4000 /\ Len(EscapeString(call.body)) < 4000
    /\ Len(result.text) = 4000 + Len(Ellipsis)
    /\ From(result.text, 4001) = Ellipsis

\* C16: cut marker: when a non-empty marker occurs in the composed header and
\* body, the case of letters ignored, the result is the composed text up to the
\* rune before the first occurrence, the global cap then applied; when it does
\* not occur the composed text goes on to the global cap unchanged
CutMarkerApplied ==
    Formatted /\ call.cutText # << >> =>
        LET text == Composed(call.useEmojis, call.header.folder, call.header.sender,
                             call.header.subject, call.body, call.maxLength)
            hits == Occurrences(text, call.cutText)
        IN  IF hits = {} THEN result.text = Capped(text)
            ELSE /\ result.text = Capped(SubSeq(text, 1, Least(hits) - 1))
                 /\ Len(result.text) <= GlobalCap =>
                        Occurrences(result.text, call.cutText) = {}

\* C16: a body holding the marker in another case has been cut before it
CutAtMarkerInOtherCase ==
    /\ Formatted
    /\ call.cutText = <<"-", "e", "n", "d">>
    /\ call.body = <<"a", "-", "E", "n", "d", "a">>
    /\ call.maxLength = 4000
    /\ result.text = CallHeader \o BodyLabel \o <<"a">>

\* the resolver has returned
Resolved == call.fn = "findFolderRecursive" /\ result.fn = "findFolderRecursive"

\* the number of events e in log
Count(log, e) == Cardinality({k \in 1..Len(log) : log[k] = e})

\* C17: handle discipline of findFolderRecursive: when it returns, with a
\* match or without, every folder handle and child collection handle it took
\* was taken once and, the returned match apart, released exactly once, after
\* it was taken; the returned match was not released
HandlesReleasedOnce ==
    Resolved =>
        LET log == result.walk.log
            handles == {log[k][2] : k \in 1..Len(log)}
        IN  /\ result.walk.found = result.folder
            /\ \A h \in handles :
                 /\ Count(log, <<"Get", h>>) = 1
                 /\ Count(log, <<"Release", h>>) =
                        IF h = <<"Item", result.folder>> THEN 0 ELSE 1
                 /\ \A k \in 1..Len(log) :
                        log[k] = <<"Release", h>> =>
                            \E j \in 1..(k - 1) : log[j] = <<"Get", h>>

\* C17: a match was found two levels down, five folders and three child
\* collections having been taken on the way
MatchFoundBelow ==
    /\ Resolved
    /\ call.parent = 0 /\ call.target = "Invoices" /\ result.folder = 4
    /\ Count(result.walk.log, <<"Release", <<"Item", 3>> >>) = 1
    /\ Count(result.walk.log, <<"Release", <<"Folders", 0>> >>) = 1

\* postJSON has returned
Posted == call.fn = "postJSON" /\ result.fn = "postJSON"

BodyCutAtMarkerInBody ==
    Formatted /\ call.maxLength # 0 /\ call.cutText # << >>
              /\ Occurrences(call.body, call.cutText) # {} =>
        LET first == Least(Occurrences(call.body, call.cutText))
            before == EscapeString(SubSeq(call.body, 1, first - 1))
            section == From(result.text, Len(CallHeader) + Len(BodyLabel) + 1)
        IN  \E n \in 0..Len(before) :
                section \in {SubSeq(before, 1, n), SubSeq(before, 1, n) \o Ellipsis}

RECURSIVE Preorder(_)
RECURSIVE PreorderOf(_, _)

\* the folders below parent: each child, in provider order, followed by the
\* folders below it
PreorderOf(children, i) ==
    IF i > Len(children) THEN << >>
    ELSE <<children[i]>> \o Preorder(children[i]) \o PreorderOf(children, i + 1)

Preorder(parent) == PreorderOf(Folders(parent), 1)

\* the children of parent
Children(parent) == {Folders(parent)[k] : k \in 1..Len(Folders(parent))}

\* C20: a child of the level searched that bears the name is returned in
\* preference to a folder of that name nested under an earlier sibling
DirectChildPreferred ==
    Resolved /\ (\E c \in Children(call.parent) : Name(c) = call.target) =>
        result.folder \in Children(call.parent)

\* C20: the resolver searches depth first: each child is compared and, if it
\* does not bear the name, searched with all below it before the next child
\* is looked at; the folder returned is the first of that order bearing the
\* name, and none is returned when no folder below the parent bears it
FirstInPreorder ==
    Resolved =>
        LET order == Preorder(call.parent)
            hits == {k \in 1..Len(order) : Name(order[k]) = call.target}
        IN  result.folder = IF hits = {} THEN NoFolder ELSE order[Least(hits)]

\* C20: the folder returned is nested under an earlier sibling of a child
\* that bears the name too
NestedBeforeDirect ==
    /\ Resolved
    /\ call.parent = 1 /\ call.target = "Invoices"
    /\ result.folder = 4
    /\ \E c \in Children(1) : Name(c) = "Invoices" /\ c # 4

\* C21: every folder handle the resolver returned in a cycle has been released
\* when the cycle task ends after processFolders has returned, the folders
\* without unread items and a handle a later rule of the same name replaced
\* in the map included
FolderHandlesReleased ==
    \A t \in Tasks :
        task[t].pc = "ret" /\ task[t].exit = "normal" => task[t].folderRefs = 0

\* C22: killOutlookProcess is called only after initializeOutlook has
\* returned an error: a task is at the call, or has made it, only with that
\* error, and a cycle with a launch failure, a folder not found, a failed
\* field read, a failed delivery or a caught panic has made no such call
KillOnlyAfterInitFailure ==
    \A t \in Tasks :
        /\ task[t].pc = "kill" \/ task[t].killCalls > 0 => task[t].initErr
        /\ \/ task[t].notFound # {} \/ task[t].readFailed \/ task[t].sendFailed
           \/ task[t].exit \in {"launchfail", "panic", "cancelled", "nofolders", "normal"}
             => task[t].pc # "kill" /\ task[t].killCalls = 0

\* C22: a cycle with a folder not found and a failed delivery has ended, the
\* provider process alive and no forced termination made
FailuresWithoutKill ==
    \E t \in Tasks :
        /\ task[t].pc = "ret" /\ task[t].notFound # {} /\ task[t].sendFailed
        /\ task[t].killCalls = 0 /\ outlookRunning

NoSameCycleRetry ==
    \A t \in Tasks : task[t].pc = "send" => task[t].entryID \notin task[t].attempted

\* a folder without unread items has been passed over
EmptyFolderStep(t) ==
    /\ task[t].pc = "processFolders" /\ task'[t].pc = "processFolders"
    /\ task'[t].complete # task[t].complete

\* C25: the dedup cache only grows: no step removes a key of the cache; a
\* rollback leaves the key of the identity in the cache with the flag false;
\* a folder without unread items leaves the cache as it is
CacheOnlyGrows ==
    /\ [][DOMAIN processedEmails \subseteq DOMAIN processedEmails']_vars
    /\ [][\A t \in Tasks :
            task[t].pc = "send" /\ task[t].entryID \in failed' =>
                /\ task[t].entryID \in DOMAIN processedEmails'
                /\ ~processedEmails'[task[t].entryID]]_vars
    /\ [][\A t \in Tasks : EmptyFolderStep(t) => processedEmails' = processedEmails]_vars

\* C25: the cache holds the key of an identity whose delivery was rolled back
\* next to the key of a delivered one
RolledBackKeyKept ==
    \E id \in DOMAIN processedEmails, other \in DOMAIN processedEmails :
        /\ ~processedEmails[id] /\ id \in failed
        /\ processedEmails[other] /\ other \in delivered

\* C27: the dedup lock is never leaked: it is held only by a task inside
\* processEmail, so after processEmail has been left by a return or by a
\* panic of a field read the lock is free, and a task that comes to the lock
\* in a later cycle finds it free
LockNeverLeaked ==
    /\ \A t \in Tasks : mutexMsg = t => InProcessEmail(t)
    /\ \A t \in Tasks : task[t].pc \in {"lock", "ret", "idle"} => mutexMsg # t
    /\ (\E t \in Tasks : task[t].pc = "lock") => mutexMsg = 0

\* C27: processEmail is at the lock in a cycle after one in which a field
\* read panicked under the lock, the mark of that cycle still in the cache
AtLockAfterPanic ==
    /\ \E t \in Tasks : task[t].pc = "lock"
    /\ \E id \in DOMAIN processedEmails :
          processedEmails[id] /\ id \notin delivered
    /\ mutexMsg = 0

\* C28: sink target resolution: a notification about to be sent goes to the
\* override of the first folder rule named as the folder being processed when
\* that override is not empty, and to the default target otherwise
SinkTargetResolved ==
    \A t \in Tasks :
        task[t].pc = "send" =>
            \E k \in 1..Len(config) :
                /\ config[k].Name = task[t].cur
                /\ \A j \in 1..(k - 1) : config[j].Name # task[t].cur
                /\ task[t].chatID = IF config[k].ChatID # "" THEN config[k].ChatID
                                    ELSE "chatDefault"

\* C28: a notification is about to go to the default target, the first rule
\* of the folder having no override and a later rule of that name having one
DefaultTargetByFirstRule ==
    \E t \in Tasks :
        /\ task[t].pc = "send" /\ task[t].chatID = "chatDefault"
        /\ \E j \in 1..Len(config) :
              config[j].Name = task[t].cur /\ config[j].ChatID # ""

\* C26: with the guard relaxed and two cycle tasks processing items side by
\* side, the lock of processEmail keeps the delivery attempts apart: no two
\* tasks are between the dedup check and the end of a delivery attempt at the
\* same time, for one identity or for two, and no task is about to deliver
\* an identity that a delivery attempt of either task has succeeded for
SerializedUnderRelaxedGuard ==
    /\ \A t, u \in Tasks : InProcessEmail(t) /\ InProcessEmail(u) => t = u
    /\ \A t \in Tasks : InProcessEmail(t) => mutexMsg = t
    /\ \A t \in Tasks : task[t].pc = "send" => task[t].entryID \notin delivered

\* C26: a task is delivering an item while the other task waits at the lock
\* with the same item in hand
SecondTaskWaitsAtLock ==
    \E t, u \in Tasks :
        /\ t # u
        /\ task[t].pc = "send" /\ task[u].pc = "lock"
        /\ task[t].entryID = task[u].entryID
        /\ mutexMsg = t
====
